---------------------------- MODULE Spec2Model ----------------------------
(***************************************************************************)
(* Progress and realtime bookkeeping of the Cogno browser application:     *)
(*   - CognoTracker (frontend/js/activity-tracker.js): saveActivity and    *)
(*     the achievement and doctor-notification steps it awaits;            *)
(*   - CognoModules.calculatePoints (modules handler);                     *)
(*   - ProgressTracker.awardAchievement (frontend/progress/progress.js);   *)
(*   - RealtimeManager / TableSubscriptions / CognoRealtime (js/realtime). *)
(* Every await of an async function is one step of the calling process:    *)
(* the step applies the awaited request to the store, draws its outcome    *)
(* and runs the synchronous code up to the next await.                     *)
(***************************************************************************)
EXTENDS Integers, Sequences, FiniteSets, TLC

VARIABLES
    \* ---- pure calculations (percentage, points)
    calc,
    \* ---- hosted store (tables) and identity provider
    session, student_progress, activity_logs, user_achievements,
    notifications,
    \* ---- CognoTracker objects (one per tab) and the progress page
    user, pc, act, loc, result, feedback, io,
    \* ---- environment bookkeeping
    award, overlap, calls, lookupFailed,
    \* ---- realtime layer
    clientOk, clock, provider, channels, subs, objects,
    \* ---- backend API client (one call at a time)
    api,
    \* ---- module page (CognoModules), login e-mail of the dashboard,
    \* ---- notification center
    modules, login, center

calcVars == <<calc>>
apiVars == <<api>>
pageVars == <<modules, login, center>>
storeVars == <<student_progress, activity_logs, user_achievements,
               notifications>>
trackerVars == <<session, student_progress, activity_logs, user_achievements,
                 notifications, user, pc, act, loc, result,
                 feedback, io, award, overlap, calls, lookupFailed>>
realtimeVars == <<clientOk, clock, provider, channels, subs, objects>>
vars == <<calc, session, student_progress, activity_logs, user_achievements,
          notifications, user, pc, act, loc, result,
          feedback, io, award, overlap, calls, lookupFailed,
          clientOk, clock, provider, channels, subs, objects, api,
          modules, login, center>>

-----------------------------------------------------------------------------
(* Bounds of the model *)

\* largest score and largest supplied maxScore of the pure calculations
MaxScoreIn == 30
\* saveActivity / awardAchievement calls started in one behaviour
MaxCalls == 2
\* logical realtime subscriptions opened in one behaviour
MaxSubs == 2
\* largest value of Date.now() read
MaxClock == 1
\* longest life of one API call, in units of API_TIMEOUT
MaxApiTicks == 3
\* calls of one unsubscribe closure
MaxUnsubCalls == 2
\* table subscriptions a NotificationListener and an ActivityFeed open in one
\* behaviour
MaxFeedSubs == 6
\* CognoModules.completeActivity calls started in one behaviour
MaxCompletions == 3
\* CognoDashboard.triggerLoginEmail calls started in one browser session
MaxTriggers == 4
\* options.maxNotifications the notification center is constructed with
maxNotifications == 3
\* calls on the notification center in one behaviour
MaxCenterCalls == 5

-----------------------------------------------------------------------------
(* Program constants *)

notifyDoctorThreshold == 80
\* const API_TIMEOUT = 30000 (milliseconds)
API_TIMEOUT == 30000
\* completed: percentage >= 50 (activity-tracker.js line 193)
CompletedThreshold == 50
\* fallback maxScore of an unknown activity (activity-tracker.js line 179)
DefaultMaxScore == 100
\* calculatePoints: quick-completion limit in seconds and the two bonuses
QuickDuration == 120
QuickBonus == 10
PerfectBonus == 25

Min(a, b) == IF a <= b THEN a ELSE b
Max(a, b) == IF a >= b THEN a ELSE b

\* Math.round of the non-negative quotient num/den, den > 0: the nearest
\* integer, halves rounded up.
MathRound(num, den) == (2 * num + den) \div (2 * den)

\* num/den lies exactly half way between two integers
IsTie(num, den) == (2 * num) % (2 * den) = den

\* Math.round((score / maxScore) * 100).  JavaScript divides in binary
\* floating point and then multiplies by 100, so a quotient whose exact
\* percentage is a half (29/200 -> 14.5) may be computed just below the half
\* (14.499999999999998) and round down; tieUp is the direction the floating
\* point product takes on such a tie.  Off a tie the result is exact.
RoundPercent(score, maxScore, tieUp) ==
    IF IsTie(100 * score, maxScore) /\ ~tieUp
        THEN (100 * score) \div maxScore
        ELSE MathRound(100 * score, maxScore)

\* const maxScore = activity.maxScore || activityInfo?.maxScore || 100;
\* 0 stands for an absent (falsy) value.
EffectiveMaxScore(supplied, catalog) ==
    IF supplied # 0 THEN supplied
    ELSE IF catalog # 0 THEN catalog
    ELSE DefaultMaxScore

\* a plausible slip: the clamp to 100 is left out
PercentageNoClamp(score, maxScore, tieUp) ==
    RoundPercent(score, maxScore, tieUp)

\* const percentage = Math.min(100, Math.round((score / maxScore) * 100));
Percentage(score, maxScore, tieUp) ==
    Min(100, RoundPercent(score, maxScore, tieUp))

\* a plausible slip: > instead of >=
CompletedStrict(percentage) == percentage > CompletedThreshold

\* completed: percentage >= 50
Completed(percentage) == percentage >= CompletedThreshold

\* a plausible slip: the quick-completion test reads <= 120
calculatePointsLe(percentage, duration) ==
    MathRound(percentage, 10) * 10
      + (IF duration <= QuickDuration THEN QuickBonus ELSE 0)
      + (IF percentage = 100 THEN PerfectBonus ELSE 0)

\* CognoModules.calculatePoints(percentage, duration).  percentage / 10 is a
\* single correctly rounded division, so its halves (0.5, 1.5, ...) are exact
\* and Math.round takes them up.
calculatePoints(percentage, duration) ==
    LET basePoints == MathRound(percentage, 10) * 10
        quick == IF duration < QuickDuration THEN QuickBonus ELSE 0
        perfect == IF percentage = 100 THEN PerfectBonus ELSE 0
    IN  basePoints + quick + perfect

-----------------------------------------------------------------------------
(* Pure calculations: the inputs are drawn from bounded sets and the        *)
(* operators above are applied to them.                                     *)

NoCalc == [op |-> "none"]

\* maxScore values of the activity catalog (0: activity not in the catalog)
CatalogMaxScores == {0, 100, 130}

\* durations in seconds around the quick-completion limit
Durations == {0, 10, 60, 90, 119, 120, 121, 150, 300}

\* lines 179-180 of saveActivity applied to one input
ComputePercentage ==
    /\ calc = NoCalc
    /\ \E score \in 0 .. MaxScoreIn, supplied \in 0 .. MaxScoreIn,
         catalog \in CatalogMaxScores, tieUp \in BOOLEAN :
          LET maxScore == EffectiveMaxScore(supplied, catalog) IN
          calc' = [op |-> "percentage", score |-> score,
                   maxScore |-> maxScore, tieUp |-> tieUp,
                   value |-> Percentage(score, maxScore, tieUp)]
    /\ UNCHANGED <<trackerVars, realtimeVars, apiVars, pageVars>>

\* calculatePoints applied to one input
ComputePoints ==
    /\ calc = NoCalc
    /\ \E percentage \in 0 .. 100, duration \in Durations :
          calc' = [op |-> "points", percentage |-> percentage,
                   duration |-> duration,
                   value |-> calculatePoints(percentage, duration)]
    /\ UNCHANGED <<trackerVars, realtimeVars, apiVars, pageVars>>

-----------------------------------------------------------------------------
(* CognoTracker: catalog, inputs and store queries *)

NoUser == "none"
Student == "u1"
Doctors == {"d1", "d2"}

Tabs == {"tab1", "tab2"}
ProgressPage == "progress"
Procs == Tabs \cup {ProgressPage}

\* the tabs that run a tracker: one when calls are serial, two otherwise
ActiveTabs == IF overlap THEN Tabs ELSE {"tab1"}

\* CognoTracker.modules: the activity ids of each module
ModuleActivities(moduleId) ==
    CASE moduleId = "dyslexia" ->
           {"text-reader", "text-simplifier", "letter-match", "word-builder",
            "sight-words", "rhyme-time", "spelling-bee", "word-scramble"}
      [] moduleId = "dyscalculia" ->
           {"number-line", "counting", "number-match", "addition",
            "subtraction", "multiplication", "division", "math-pop",
            "number-puzzle"}
      [] moduleId = "dysgraphia" ->
           {"letter-tracing", "letter-formation", "alphabet-practice",
            "word-tracing", "spelling-write", "copy-practice", "free-draw",
            "shape-tracing", "sentence-write"}
      [] moduleId = "dyspraxia" ->
           {"balloon-pop", "catch-stars", "mirror-me", "freeze-dance",
            "tightrope-walk", "obstacle-course", "finger-tap", "drag-drop",
            "track-path"}
      [] OTHER -> {}

\* activityInfo?.maxScore: 130 for letter-match, 100 for every other activity
\* of the catalog, 0 (undefined) for an unknown module or activity
CatalogMaxScore(moduleId, activityId) ==
    IF activityId \notin ModuleActivities(moduleId) THEN 0
    ELSE IF moduleId = "dyslexia" /\ activityId = "letter-match" THEN 130
    ELSE 100

\* the activities handed to saveActivity: "" is a missing field, maxScore 0
\* an absent maxScore
\* <<activityId, score, maxScore, duration>>
Attempts == { <<"letter-match", 13, 13, 90>>, <<"letter-match", 65, 0, 150>>,
              <<"text-reader", 49, 100, 150>>, <<"text-reader", 79, 0, 90>>,
              <<"text-reader", 80, 100, 150>> }

Activity(m, a, x) ==
    [moduleId |-> m, activityId |-> a, score |-> x[2], maxScore |-> x[3],
     duration |-> x[4]]

\* the attempts above, an attempt of a module the catalog does not know, and
\* two calls with a missing field
ActivityInputs ==
    {Activity("dyslexia", x[1], x) : x \in Attempts}
      \cup {Activity("custom", "quiz", <<"quiz", 5, 0, 60>>)}
      \cup {Activity("", "letter-match", <<"", 13, 13, 90>>),
            Activity("dyslexia", "", <<"", 13, 13, 90>>)}

NoActivity == [moduleId |-> "", activityId |-> "", score |-> 0,
               maxScore |-> 0, duration |-> 0]

\* what a request to a collaborator does: it succeeds, it resolves to an
\* {error} result, or the call throws (rejects).  Failures are explored with
\* calls made one after the other; where two tabs overlap, every request is
\* answered
Outcomes == IF overlap THEN {"ok"} ELSE {"ok", "error", "throw"}

\* the row saveActivity prepares for student_progress (lines 184-200)
ProgressRecord(uid, a, maxScore, percentage) ==
    [student_id |-> uid, module_type |-> a.moduleId,
     activity_id |-> a.activityId, score |-> a.score, max_score |-> maxScore,
     time_spent_seconds |-> a.duration, completed |-> Completed(percentage),
     attempts |-> 1, completion_percentage |-> percentage]

SameKey(r, q) ==
    /\ r.student_id = q.student_id
    /\ r.module_type = q.module_type
    /\ r.activity_id = q.activity_id

\* a plausible slip: the upsert appends instead of replacing the row
UpsertAppend(table, row) == table \cup {row}

\* .upsert(row, {onConflict: 'student_id,module_type,activity_id'})
Upsert(table, row) == {r \in table : ~SameKey(r, row)} \cup {row}

\* indexes of the user_achievements rows of one (user_id, achievement_id)
AchievementRows(uid, aid) ==
    {i \in 1 .. Len(user_achievements) :
        /\ user_achievements[i].user_id = uid
        /\ user_achievements[i].achievement_id = aid}

\* a plausible slip: the existence check never finds a row
SingleAchievementNever(uid, aid) == FALSE

\* .select('id').eq('user_id', ..).eq('achievement_id', ..).single():
\* data is a row only when exactly one row matches
SingleAchievement(uid, aid) == Cardinality(AchievementRows(uid, aid)) = 1

\* a plausible slip: the status filter is left out of the link lookup
AnyLinks(table, uid) == {l \in table : l.patient_id = uid}

\* .eq('patient_id', ..).eq('status', 'active'): the active rows of a patient
ActiveLinks(table, uid) ==
    {l \in table : l.patient_id = uid /\ l.status = "active"}

\* xp_reward: percentage >= 90 ? 50 : 25
XpReward(percentage) == IF percentage >= 90 THEN 50 ELSE 25

\* a plausible slip: every notification is sent as "info"
NotificationTypeInfo(percentage) == "info"

\* type: percentage >= 90 ? 'achievement' : 'info'
NotificationType(percentage) ==
    IF percentage >= 90 THEN "achievement" ELSE "info"

-----------------------------------------------------------------------------
(* CognoTracker.saveActivity, one step per await *)

NoResult == [status |-> "none"]

\* the locals of a running call; toCheck is achievementsToCheck, idx the
\* position of the for loop in it, doctor the link.doctor_id found
NoLoc == [maxScore |-> 0, percentage |-> 0, toCheck |-> << >>, idx |-> 0,
          links |-> {}, doctor |-> "none"]

\* what one call has asked of its collaborators so far: the number of
\* persistence requests issued, how the upsert ended, whether notifyDoctor
\* was invoked and how it ended, the achievement ids the call found already
\* earned, those it inserted, the number of notification rows it inserted,
\* whether a collaborator failed (error result or exception), the number
\* of active links of the student the link lookup met (-1: no answer), and
\* the number of history records the call appended, the achievement ids
\* checkAchievements put into achievementsToCheck, and the number of progress
\* rows the student had before the upsert of the call (-1: no upsert applied)
NoIo == [dbCalls |-> 0, faulted |-> FALSE, upsert |-> "none",
         notifyInvoked |-> FALSE, notify |-> "none", existing |-> {},
         unlocked |-> {}, notified |-> 0, activeLinks |-> -1, logged |-> 0,
         qualified |-> {}, priorRows |-> -1]

\* the bookkeeping of a call after a request that ended with outcome o
Mark(ioR, o) == IF o = "ok" THEN ioR ELSE [ioR EXCEPT !.faulted = TRUE]

Idle == \A q \in Procs : pc[q] = "idle"

\* a call may start when calls overlap or nothing else is running
MayStart(p) ==
    /\ pc[p] = "idle"
    /\ calls < MaxCalls
    /\ overlap \/ Idle

\* return of saveActivity: the locals of the loop are dropped
Return(t, res, fb, ioR) ==
    /\ pc' = [pc EXCEPT ![t] = "idle"]
    /\ result' = [result EXCEPT ![t] = res]
    /\ feedback' = [feedback EXCEPT ![t] = fb]
    /\ io' = [io EXCEPT ![t] = ioR]
    /\ loc' = [loc EXCEPT ![t] = [@ EXCEPT !.toCheck = << >>, !.idx = 0,
                                           !.links = {}, !.doctor = "none"]]

\* a plausible slip: the result is returned before the success feedback
FinishNoFeedback(t, ioR) ==
    Return(t, [success |-> TRUE, data |-> TRUE,
               percentage |-> loc[t].percentage], "none", ioR)

\* lines 232-235: showSuccessFeedback, return {success: true, data, percentage}
Finish(t, ioR) ==
    Return(t, [success |-> TRUE, data |-> TRUE,
               percentage |-> loc[t].percentage], "success", ioR)

\* a plausible slip: the catch of saveActivity rethrows, the call rejects
CaughtRethrows(t, ioR) == Return(t, [status |-> "rejected"], "none", ioR)

\* lines 237-240: the catch of saveActivity logs and returns
\* {success: false, error: error.message}
Caught(t, ioR) ==
    Return(t, [success |-> FALSE, error |-> "exception"], "none", ioR)

\* a plausible slip: the threshold test reads > instead of >=
ShouldNotifyStrict(percentage) == percentage > notifyDoctorThreshold

\* line 228: percentage >= this.config.notifyDoctorThreshold
ShouldNotify(percentage) == percentage >= notifyDoctorThreshold

\* lines 227-235, after checkAchievements has returned: notifyDoctor is
\* invoked (it issues the link lookup) or the call finishes
AfterAchievements(t, ioR) ==
    IF ShouldNotify(loc[t].percentage)
    THEN /\ pc' = [pc EXCEPT ![t] = "notify_link"]
         /\ io' = [io EXCEPT ![t] = [ioR EXCEPT !.notifyInvoked = TRUE,
                                                !.dbCalls = @ + 1]]
         /\ loc' = [loc EXCEPT ![t] = [@ EXCEPT !.toCheck = << >>,
                                                !.idx = 0]]
         /\ UNCHANGED <<result, feedback>>
    ELSE Finish(t, ioR)

\* lines 322-329: the for loop moves to achievement number idx and issues its
\* existence lookup, or the loop is over
NextAchievement(t, toCheck, idx, ioR) ==
    IF idx <= Len(toCheck)
    THEN /\ pc' = [pc EXCEPT ![t] = "ach_lookup"]
         /\ loc' = [loc EXCEPT ![t] = [@ EXCEPT !.toCheck = toCheck,
                                                !.idx = idx]]
         /\ io' = [io EXCEPT ![t] = [ioR EXCEPT !.dbCalls = @ + 1]]
         /\ UNCHANGED <<result, feedback>>
    ELSE AfterAchievements(t, ioR)

\* lines 175-210: percentage, the progress record, and the upsert is issued
PrepareUpsert(t, a, tieUp) ==
    LET maxScore == EffectiveMaxScore(a.maxScore,
                        CatalogMaxScore(a.moduleId, a.activityId))
        percentage == Percentage(a.score, maxScore, tieUp)
    IN  /\ pc' = [pc EXCEPT ![t] = "upsert"]
        /\ loc' = [loc EXCEPT ![t] = [NoLoc EXCEPT !.maxScore = maxScore,
                                          !.percentage = percentage]]
        /\ io' = [io EXCEPT ![t] = [NoIo EXCEPT !.dbCalls = 1]]
        /\ result' = [result EXCEPT ![t] = NoResult]
        /\ feedback' = [feedback EXCEPT ![t] = "none"]

\* lines 155-173 (and on to 210 when this.user is set): saveActivity is called
SaveActivity(t, a) ==
    /\ MayStart(t)
    /\ calls' = calls + 1
    /\ act' = [act EXCEPT ![t] = a]
    /\ IF a.moduleId = "" \/ a.activityId = ""
       THEN /\ pc' = pc
            /\ result' = [result EXCEPT ![t] =
                            [success |-> FALSE,
                             error |-> "Missing required fields"]]
            /\ feedback' = [feedback EXCEPT ![t] = "none"]
            /\ io' = [io EXCEPT ![t] = NoIo]
            /\ loc' = [loc EXCEPT ![t] = NoLoc]
       ELSE IF user[t] = NoUser
       THEN /\ pc' = [pc EXCEPT ![t] = "get_user"]
            /\ result' = [result EXCEPT ![t] = NoResult]
            /\ feedback' = [feedback EXCEPT ![t] = "none"]
            /\ io' = [io EXCEPT ![t] = NoIo]
            /\ loc' = [loc EXCEPT ![t] = NoLoc]
       ELSE \E tieUp \in BOOLEAN : PrepareUpsert(t, a, tieUp)
    /\ UNCHANGED <<session, storeVars, user, award, overlap,
                   lookupFailed, calcVars, apiVars, pageVars, realtimeVars>>

\* a plausible slip: the guest test is left out
IsGuestNever(u) == FALSE

\* line 169: if (!this.user)
IsGuest(u) == u = NoUser

\* getCurrentUser (lines 124-142): the session's user, or null when there is
\* none or the lookup fails
CurrentUser(o) == IF o = "ok" THEN session ELSE NoUser

\* init (lines 88-100): this.user = await this.getCurrentUser()
TrackerInit(t) ==
    /\ pc[t] = "idle"
    /\ user[t] = NoUser
    /\ \E o \in Outcomes : user' = [user EXCEPT ![t] = CurrentUser(o)]
    /\ UNCHANGED <<session, storeVars, pc, act, loc, result,
                   feedback, io, award, overlap, calls, lookupFailed, calcVars, apiVars, pageVars,
                   realtimeVars>>

\* lines 164-173: this.user = await this.getCurrentUser(); guest mode shows
\* the local feedback and returns {success: true, guest: true}
GetUser(t) ==
    /\ pc[t] = "get_user"
    /\ \E o \in Outcomes :
         LET u == CurrentUser(o) IN
         /\ user' = [user EXCEPT ![t] = u]
         /\ IF IsGuest(u)
            THEN Return(t, [success |-> TRUE, guest |-> TRUE], "local",
                        Mark(io[t], o))
            ELSE \E tieUp \in BOOLEAN : PrepareUpsert(t, act[t], tieUp)
    /\ UNCHANGED <<session, storeVars, act, award, overlap,
                   calls, lookupFailed, calcVars, apiVars, pageVars, realtimeVars>>

\* lines 204-222: the upsert returns.  An error result shows the local
\* feedback and returns {success: false, error}; a thrown exception goes to
\* the catch of line 237, which returns {success: false, error} only
UpsertProgress(t) ==
    /\ pc[t] = "upsert"
    /\ \E o \in Outcomes :
         LET ioR == Mark([io[t] EXCEPT !.upsert = o], o) IN
         CASE o = "ok" ->
                /\ student_progress' =
                     Upsert(student_progress,
                            ProgressRecord(user[t], act[t], loc[t].maxScore,
                                           loc[t].percentage))
                /\ pc' = [pc EXCEPT ![t] = "log"]
                /\ io' = [io EXCEPT ![t] =
                            [ioR EXCEPT !.dbCalls = @ + 1,
                                        !.priorRows =
                                           Cardinality({r \in student_progress :
                                               r.student_id = user[t]})]]
                /\ UNCHANGED <<loc, result, feedback>>
           [] o = "error" ->
                /\ Return(t, [success |-> FALSE, error |-> "database error"],
                          "local", ioR)
                /\ UNCHANGED student_progress
           [] o = "throw" ->
                /\ Caught(t, ioR)
                /\ UNCHANGED student_progress
    /\ UNCHANGED <<session, activity_logs, user_achievements, notifications,
                   user, act, award, overlap, calls,
                   lookupFailed, calcVars, apiVars, pageVars, realtimeVars>>


\* the record logActivityHistory hands to CognoSupabase.logActivity
LogRecord(uid, a, percentage) ==
    [user_id |-> uid, activity_type |-> "activity_completed",
     module_type |-> a.moduleId]

\* lines 221-225 and 246-278: logActivityHistory returns (its errors are
\* caught inside), checkAchievements starts and issues the allProgress query
LogHistory(t) ==
    /\ pc[t] = "log"
    /\ \E o \in Outcomes :
         /\ activity_logs' =
               IF o = "ok"
               THEN Append(activity_logs,
                           LogRecord(user[t], act[t], loc[t].percentage))
               ELSE activity_logs
         /\ io' = [io EXCEPT ![t] =
                     [Mark(@, o) EXCEPT !.dbCalls = @ + 1,
                                        !.logged = IF o = "ok" THEN @ + 1
                                                   ELSE @]]
    /\ pc' = [pc EXCEPT ![t] = "ach_all"]
    /\ UNCHANGED <<session, student_progress, user_achievements,
                   notifications, user, act, loc, result,
                   feedback, award, overlap, calls, lookupFailed, calcVars, apiVars, pageVars,
                   realtimeVars>>

FirstActivity == [type |-> "milestone", id |-> "first_activity"]
PerfectScore(moduleId) ==
    [type |-> "performance", id |-> "perfect_" \o moduleId]
Mastery(moduleId) == [type |-> "mastery", id |-> "mastery_" \o moduleId]

\* lines 275-308: the allProgress query returns; first_activity and
\* perfect_<module> are decided and the moduleProgress query is issued.  A
\* thrown exception ends checkAchievements in its catch (line 359)
AchAllProgress(t) ==
    /\ pc[t] = "ach_all"
    /\ \E o \in Outcomes :
         IF o = "throw" THEN AfterAchievements(t, Mark(io[t], o))
         ELSE LET n == IF o = "ok"
                       THEN Cardinality({r \in student_progress :
                                            r.student_id = user[t]})
                       ELSE 0
                  first == IF o = "ok" /\ n = 1 THEN <<FirstActivity>>
                           ELSE << >>
                  perfect == IF loc[t].percentage = 100
                             THEN <<PerfectScore(act[t].moduleId)>>
                             ELSE << >>
              IN  /\ pc' = [pc EXCEPT ![t] = "ach_module"]
                  /\ loc' = [loc EXCEPT ![t].toCheck = first \o perfect]
                  /\ io' = [io EXCEPT ![t] =
                              [Mark(@, o) EXCEPT
                                  !.dbCalls = @ + 1,
                                  !.qualified =
                                     {(first \o perfect)[i].id :
                                         i \in 1 .. Len(first \o perfect)}]]
                  /\ UNCHANGED <<result, feedback>>
    /\ UNCHANGED <<session, storeVars, user, act, award,
                   overlap, calls, lookupFailed, calcVars, apiVars, pageVars, realtimeVars>>

\* a plausible slip: the test for an empty catalog is left out
MasteryQualifiesVacuous(moduleActivities, completedActivities) ==
    moduleActivities \subseteq completedActivities

\* line 311: moduleActivities.length > 0 &&
\* moduleActivities.every(a => completedActivities.has(a))
MasteryQualifies(moduleActivities, completedActivities) ==
    /\ moduleActivities # {}
    /\ moduleActivities \subseteq completedActivities

\* lines 301-329: the moduleProgress query returns; mastery_<module> is
\* decided and the loop over achievementsToCheck starts
AchModuleProgress(t) ==
    /\ pc[t] = "ach_module"
    /\ \E o \in Outcomes :
         IF o = "throw" THEN AfterAchievements(t, Mark(io[t], o))
         ELSE LET m == act[t].moduleId
                  completedActivities ==
                      IF o = "ok"
                      THEN {r.activity_id : r \in
                              {q \in student_progress :
                                  /\ q.student_id = user[t]
                                  /\ q.module_type = m
                                  /\ q.completed}}
                      ELSE {}
                  mastery ==
                      IF MasteryQualifies(ModuleActivities(m),
                                          completedActivities)
                      THEN <<Mastery(m)>> ELSE << >>
              IN  NextAchievement(t, loc[t].toCheck \o mastery, 1,
                      [Mark(io[t], o) EXCEPT
                          !.qualified = @ \cup {mastery[i].id :
                                                  i \in 1 .. Len(mastery)}])
    /\ UNCHANGED <<session, storeVars, user, act, award,
                   overlap, calls, lookupFailed, calcVars, apiVars, pageVars, realtimeVars>>

\* lines 324-343: the existence lookup of the current achievement returns;
\* an achievement found is skipped, otherwise its insert is issued
AchLookup(t) ==
    /\ pc[t] = "ach_lookup"
    /\ \E o \in Outcomes :
         LET a == loc[t].toCheck[loc[t].idx]
             existing == o = "ok" /\ SingleAchievement(user[t], a.id)
         IN  /\ lookupFailed' = (lookupFailed \/ o = "error")
             /\ IF o = "throw" THEN AfterAchievements(t, Mark(io[t], o))
                ELSE IF existing
                THEN NextAchievement(t, loc[t].toCheck, loc[t].idx + 1,
                         [io[t] EXCEPT !.existing = @ \cup {a.id}])
                ELSE /\ pc' = [pc EXCEPT ![t] = "ach_insert"]
                     /\ io' = [io EXCEPT ![t] =
                                 [Mark(@, o) EXCEPT !.dbCalls = @ + 1]]
                     /\ UNCHANGED <<loc, result, feedback>>
    /\ UNCHANGED <<session, storeVars, user, act, award,
                   overlap, calls, calcVars, apiVars, pageVars, realtimeVars>>

\* the row checkAchievements inserts into user_achievements
AchievementRow(uid, a, percentage) ==
    [user_id |-> uid, achievement_type |-> a.type, achievement_id |-> a.id,
     xp_reward |-> XpReward(percentage)]

\* lines 332-358: the insert returns; the loop moves on
AchInsert(t) ==
    /\ pc[t] = "ach_insert"
    /\ \E o \in Outcomes :
         LET a == loc[t].toCheck[loc[t].idx] IN
         CASE o = "ok" ->
                /\ user_achievements' =
                     Append(user_achievements,
                            AchievementRow(user[t], a, loc[t].percentage))
                /\ NextAchievement(t, loc[t].toCheck, loc[t].idx + 1,
                       [io[t] EXCEPT !.unlocked = @ \cup {a.id}])
           [] o = "error" ->
                /\ UNCHANGED user_achievements
                /\ NextAchievement(t, loc[t].toCheck, loc[t].idx + 1,
                                   Mark(io[t], o))
           [] o = "throw" ->
                /\ UNCHANGED user_achievements
                /\ AfterAchievements(t, Mark(io[t], o))
    /\ UNCHANGED <<session, student_progress, activity_logs, notifications,
                   user, act, award, overlap, calls,
                   lookupFailed, calcVars, apiVars, pageVars, realtimeVars>>

\* doctor_patients is written by other pages only; the lookup of notifyDoctor
\* may find it without a row of the student, with one active link beside an
\* inactive one, with an inactive link only, or with two active links
LinkTables ==
    { {},
      {[doctor_id |-> "d1", patient_id |-> Student, status |-> "active"],
       [doctor_id |-> "d2", patient_id |-> Student, status |-> "inactive"]},
      {[doctor_id |-> "d1", patient_id |-> Student, status |-> "inactive"]},
      {[doctor_id |-> "d1", patient_id |-> Student, status |-> "active"],
       [doctor_id |-> "d2", patient_id |-> Student, status |-> "active"]} }

\* a plausible slip: notifyDoctor has no try/catch, so its exception reaches
\* the catch of saveActivity (line 237)
NotifyFailureEscapes(t, ioR) ==
    Return(t, [success |-> FALSE, error |-> "exception"], "none", ioR)

\* notifyDoctor ends without a notification: it returned early (line 381),
\* logged the insert error (line 410) or caught an exception (line 414);
\* saveActivity goes on to its success feedback
NotifyFailure(t, ioR) == Finish(t, ioR)

\* lines 372-407: the doctor_patients lookup returns.  Without exactly one
\* active link (.single()) notifyDoctor returns; otherwise the notification
\* insert is issued.  A thrown exception is caught at line 414
NotifyLink(t) ==
    /\ pc[t] = "notify_link"
    /\ \E o \in Outcomes, table \in LinkTables :
         LET links == ActiveLinks(table, user[t]) IN
         CASE o = "throw" ->
                NotifyFailure(t, [Mark(io[t], o) EXCEPT !.notify = "lookup_throw"])
           [] o = "error" ->
                NotifyFailure(t, [Mark(io[t], o) EXCEPT !.notify = "lookup_error"])
           [] o = "ok" /\ Cardinality(links) # 1 ->
                NotifyFailure(t, [io[t] EXCEPT !.notify = "no_link",
                                               !.activeLinks =
                                                  Cardinality(links)])
           [] o = "ok" /\ Cardinality(links) = 1 ->
                /\ pc' = [pc EXCEPT ![t] = "notify_insert"]
                /\ loc' = [loc EXCEPT ![t].links = table,
                                       ![t].doctor =
                                          (CHOOSE l \in links : TRUE).doctor_id]
                /\ io' = [io EXCEPT ![t].dbCalls = @ + 1,
                                    ![t].activeLinks = 1]
                /\ UNCHANGED <<result, feedback>>
    /\ UNCHANGED <<session, storeVars, user, act, award,
                   overlap, calls, lookupFailed, calcVars, apiVars, pageVars, realtimeVars>>

\* the row notifyDoctor inserts into notifications (lines 388-403)
NotificationRow(t) ==
    [user_id |-> loc[t].doctor, type |-> NotificationType(loc[t].percentage),
     read |-> FALSE, patient_id |-> user[t],
     percentage |-> loc[t].percentage]

\* lines 405-417 and 232-235: the notification insert returns, notifyDoctor
\* returns and saveActivity finishes
NotifyInsert(t) ==
    /\ pc[t] = "notify_insert"
    /\ \E o \in Outcomes :
         CASE o = "ok" ->
                /\ notifications' = Append(notifications, NotificationRow(t))
                /\ Finish(t, [io[t] EXCEPT !.notify = "ok",
                                           !.notified = @ + 1])
           [] o = "error" ->
                /\ UNCHANGED notifications
                /\ NotifyFailure(t, [Mark(io[t], o) EXCEPT
                                         !.notify = "insert_error"])
           [] o = "throw" ->
                /\ UNCHANGED notifications
                /\ NotifyFailure(t, [Mark(io[t], o) EXCEPT !.notify = "insert_throw"])
    /\ UNCHANGED <<session, student_progress, activity_logs,
                   user_achievements, user, act, award,
                   overlap, calls, lookupFailed, calcVars, apiVars, pageVars, realtimeVars>>

-----------------------------------------------------------------------------
(* ProgressTracker.awardAchievement (progress page) *)

NoAward == [id |-> "none", outcome |-> "none"]
AwardIds == {"first_activity", "streak_7"}

\* awardAchievement(achievementId) is called: the existence lookup is issued.
\* Without a current user this.currentUser.id throws into the catch
AwardAchievement(aid) ==
    /\ MayStart(ProgressPage)
    /\ calls' = calls + 1
    /\ IF session = NoUser
       THEN /\ award' = [id |-> aid, outcome |-> "failed"]
            /\ pc' = pc
       ELSE /\ award' = [id |-> aid, outcome |-> "none"]
            /\ pc' = [pc EXCEPT ![ProgressPage] = "award_lookup"]
    /\ UNCHANGED <<session, storeVars, user, act, loc,
                   result, feedback, io, overlap, lookupFailed, calcVars, apiVars, pageVars,
                   realtimeVars>>

\* lines 371-378: the lookup returns; if (existing) return
AwardLookup ==
    /\ pc[ProgressPage] = "award_lookup"
    /\ \E o \in Outcomes :
         LET existing == o = "ok" /\ SingleAchievement(session, award.id) IN
         /\ lookupFailed' = (lookupFailed \/ o = "error")
         /\ IF o = "throw"
            THEN /\ award' = [award EXCEPT !.outcome = "failed"]
                 /\ pc' = [pc EXCEPT ![ProgressPage] = "idle"]
            ELSE IF existing
            THEN /\ award' = [award EXCEPT !.outcome = "existing"]
                 /\ pc' = [pc EXCEPT ![ProgressPage] = "idle"]
            ELSE /\ award' = award
                 /\ pc' = [pc EXCEPT ![ProgressPage] = "award_insert"]
    /\ UNCHANGED <<session, storeVars, user, act, loc,
                   result, feedback, io, overlap, calls, calcVars, apiVars, pageVars,
                   realtimeVars>>

\* lines 380-392: the insert returns (its result is not read)
AwardInsert ==
    /\ pc[ProgressPage] = "award_insert"
    /\ \E o \in Outcomes :
         IF o = "ok"
         THEN /\ user_achievements' =
                   Append(user_achievements,
                          [user_id |-> session, achievement_id |-> award.id])
              /\ award' = [award EXCEPT !.outcome = "inserted"]
         ELSE /\ UNCHANGED user_achievements
              /\ award' = [award EXCEPT !.outcome = "failed"]
    /\ pc' = [pc EXCEPT ![ProgressPage] = "idle"]
    /\ UNCHANGED <<session, student_progress, activity_logs, notifications,
                   user, act, loc, result, feedback, io,
                   overlap, calls, lookupFailed, calcVars, apiVars, pageVars, realtimeVars>>


-----------------------------------------------------------------------------
(* Realtime layer (js/realtime.js) *)

\* provider: the channel objects client.channel(name) has created, in order;
\*   state is "created", "joining" (subscribe() called), "joined" (the
\*   provider has signalled SUBSCRIBED) or "closed" (unsubscribe() called)
\* channels: realtimeManager.channels, a Map from channel name to the index
\*   of a channel object
\* subs: the unsubscribe closures handed out, with the channel object each
\*   holds (0: the inert closure () => { }) and the times it was called
\* objects: this.channel of the page's PresenceTracker, BroadcastChannel and
\*   ConsultationRoom (0: null), the status of the consultation row, and
\*   whether a call of theirs has thrown

Tables == {"progress", "notifications"}
ManagerNames == {<<"custom", "room", 0>>}

\* `table:${table}:${Date.now()}`
TableChannelName(table, now) == <<"table", table, now>>
\* `progress:${studentId}:${Date.now()}`
ProgressChannelName(studentId, now) == <<"progress", studentId, now>>

\* client.channel(name): a new channel object.  tracks is the set of states
\* the channel was in when track() was called on it, sent whether send() was
\* called on it
NewChannel(name, state) ==
    Append(provider, [name |-> name, state |-> state, tracks |-> {},
                      sent |-> FALSE])

\* channel.unsubscribe()
CloseChannel(prov, c) == [prov EXCEPT ![c].state = "closed"]

\* a plausible slip: the client test is left out
ClientMissingNever == FALSE

\* if (!window.CognoSupabase?.client) return ...; if (!this.client) return null
ClientMissing == ~clientOk

\* Date.now() advances
Tick ==
    /\ clock < MaxClock
    /\ clock' = clock + 1
    /\ UNCHANGED <<objects, clientOk, provider, channels, subs, calcVars, apiVars, pageVars, trackerVars>>

\* the closure a subscribe call returns
Closure(kind, chan) == [kind |-> kind, chan |-> chan, unsubCalls |-> 0]

\* CognoRealtime.manager.subscribe(channelName) (lines 26-42)
ManagerSubscribe(name) ==
    /\ Len(provider) < MaxSubs
    /\ ~ClientMissing
    /\ name \notin DOMAIN channels
    /\ provider' = NewChannel(name, "created")
    /\ channels' = [n \in DOMAIN channels \cup {name} |->
                      IF n = name THEN Len(provider) + 1 ELSE channels[n]]
    /\ UNCHANGED <<objects, clientOk, clock, subs, calcVars, apiVars, pageVars, trackerVars>>

\* RealtimeManager.unsubscribe(channelName) (lines 48-54)
ManagerUnsubscribe(name) ==
    /\ name \in DOMAIN channels
    /\ provider' = CloseChannel(provider, channels[name])
    /\ channels' = [n \in DOMAIN channels \ {name} |-> channels[n]]
    /\ UNCHANGED <<objects, clientOk, clock, subs, calcVars, apiVars, pageVars, trackerVars>>

RECURSIVE CloseAll(_, _)
CloseAll(prov, cs) ==
    IF cs = {} THEN prov
    ELSE LET c == CHOOSE x \in cs : TRUE
         IN  CloseAll(CloseChannel(prov, c), cs \ {c})

\* RealtimeManager.unsubscribeAll (lines 59-64): CognoRealtime.cleanup and the
\* beforeunload handler
UnsubscribeAll ==
    /\ provider' = CloseAll(provider, {channels[n] : n \in DOMAIN channels})
    /\ channels' = << >>
    /\ UNCHANGED <<objects, clientOk, clock, subs, calcVars, apiVars, pageVars, trackerVars>>

\* TableSubscriptions.subscribe(table, callback, options) (lines 92-119)
TableSubscribe(table) ==
    /\ Len(subs) < MaxSubs
    /\ Len(provider) < MaxSubs
    /\ IF ClientMissing
       THEN /\ subs' = Append(subs, Closure("table", 0))
            /\ UNCHANGED provider
       ELSE /\ provider' = NewChannel(TableChannelName(table, clock), "joining")
            /\ subs' = Append(subs, Closure("table", Len(provider) + 1))
    /\ UNCHANGED <<objects, clientOk, clock, channels, calcVars, apiVars, pageVars, trackerVars>>

\* TableSubscriptions.subscribeToChildActivities(childIds, callback) with two
\* child ids (lines 189-196): childIds.map runs subscribe('activity_logs', ..)
\* once per child, one call right after the other; Date.now() may or may not
\* have advanced between the two calls
SubscribeToChildActivities ==
    /\ Len(subs) + 2 <= MaxSubs
    /\ Len(provider) + 2 <= MaxSubs
    /\ \E later \in {clock, clock + 1} :
         /\ later <= MaxClock
         /\ clock' = later
         /\ IF ClientMissing
            THEN /\ subs' = subs \o <<Closure("table", 0), Closure("table", 0)>>
                 /\ UNCHANGED provider
            ELSE LET n == Len(provider) IN
                 /\ provider' = provider \o
                      <<[name |-> TableChannelName("activity_logs", clock),
                         state |-> "joining", tracks |-> {}, sent |-> FALSE],
                        [name |-> TableChannelName("activity_logs", later),
                         state |-> "joining", tracks |-> {}, sent |-> FALSE]>>
                 /\ subs' = subs \o <<Closure("table", n + 1),
                                      Closure("table", n + 2)>>
    /\ UNCHANGED <<objects, clientOk, channels, calcVars, apiVars, pageVars, trackerVars>>

\* CognoRealtime.subscribeToProgress(studentId, callback) (lines 666-693)
SubscribeToProgress(studentId) ==
    /\ Len(subs) < MaxSubs
    /\ Len(provider) < MaxSubs
    /\ IF ClientMissing
       THEN /\ subs' = Append(subs, Closure("progress", 0))
            /\ UNCHANGED provider
       ELSE /\ provider' =
                 NewChannel(ProgressChannelName(studentId, clock), "joining")
            /\ subs' = Append(subs, Closure("progress", Len(provider) + 1))
    /\ UNCHANGED <<objects, clientOk, clock, channels, calcVars, apiVars, pageVars, trackerVars>>

\* channel.track(userInfo) on channel object c (0: this.channel is null and
\* the call throws inside the callback)
Track(prov, c) ==
    IF c = 0 THEN prov
    ELSE [prov EXCEPT ![c].tracks = @ \cup {prov[c].state}]

\* the object whose subscribe callback gates track on the SUBSCRIBED status of
\* a channel of this name ("none": a callback that does not track)
TrackingOwner(name) ==
    CASE name[1] = "presence" -> "presence"
      [] name[1] = "consultation" -> "room"
      [] OTHER -> "none"

\* the provider signals SUBSCRIBED for a joining channel: the status callback
\* given to subscribe() runs; those of PresenceTracker.init (lines 242-246)
\* and ConsultationRoom.join (lines 428-436) call this.channel.track
Subscribed(c) ==
    /\ provider[c].state = "joining"
    /\ LET joined == [provider EXCEPT ![c].state = "joined"]
           owner == TrackingOwner(provider[c].name)
       IN  IF owner = "none"
           THEN provider' = joined /\ objects' = objects
           ELSE /\ provider' = Track(joined, objects[owner])
                /\ objects' = IF objects[owner] = 0
                              THEN [objects EXCEPT !.threw = TRUE]
                              ELSE objects
    /\ UNCHANGED <<clientOk, clock, channels, subs, calcVars, apiVars, pageVars, trackerVars>>

\* threw: a call on a null this.channel has thrown; leave: the await
\* ConsultationRoom.leave is at; listener: the closure in this.unsubscribe of
\* the NotificationListener (0: null); feed: this.subscriptions of the
\* ActivityFeed
NoObjects == [presence |-> 0, broadcast |-> 0, room |-> 0,
              consultation |-> "scheduled", threw |-> FALSE,
              leave |-> "idle", listener |-> 0, feed |-> << >>]

PresenceChannelName == <<"presence", "presence", 0>>
BroadcastChannelName == <<"broadcast", "room", 0>>
ConsultationChannelName == <<"consultation", "c1", 0>>

\* PresenceTracker.init(userInfo) (lines 218-247)
PresenceInit ==
    /\ Len(provider) < MaxSubs
    /\ IF ClientMissing
       THEN UNCHANGED <<provider, objects>>
       ELSE /\ provider' = NewChannel(PresenceChannelName, "joining")
            /\ objects' = [objects EXCEPT !.presence = Len(provider) + 1]
    /\ UNCHANGED <<clientOk, clock, channels, subs, calcVars, apiVars, pageVars, trackerVars>>

\* PresenceTracker.updatePresence(userInfo) (lines 253-257)
PresenceUpdate ==
    /\ provider' = Track(provider, objects.presence)
    /\ UNCHANGED <<objects, clientOk, clock, channels, subs, calcVars, apiVars, pageVars, trackerVars>>

\* PresenceTracker.destroy() (lines 294-300)
PresenceDestroy ==
    /\ IF objects.presence = 0
       THEN UNCHANGED <<provider, objects>>
       ELSE /\ provider' = CloseChannel(provider, objects.presence)
            /\ objects' = [objects EXCEPT !.presence = 0]
    /\ UNCHANGED <<clientOk, clock, channels, subs, calcVars, apiVars, pageVars, trackerVars>>

\* BroadcastChannel.connect() (lines 318-327)
BroadcastConnect ==
    /\ Len(provider) < MaxSubs
    /\ IF ClientMissing
       THEN UNCHANGED <<provider, objects>>
       ELSE /\ provider' = NewChannel(BroadcastChannelName, "joining")
            /\ objects' = [objects EXCEPT !.broadcast = Len(provider) + 1]
    /\ UNCHANGED <<clientOk, clock, channels, subs, calcVars, apiVars, pageVars, trackerVars>>

\* channel.send(...) on channel object c
Send(prov, c) == [prov EXCEPT ![c].sent = TRUE]

\* BroadcastChannel.send(event, payload) (lines 348-356)
BroadcastSend ==
    /\ provider' = IF objects.broadcast = 0 THEN provider
                   ELSE Send(provider, objects.broadcast)
    /\ UNCHANGED <<objects, clientOk, clock, channels, subs, calcVars, apiVars, pageVars, trackerVars>>

\* BroadcastChannel.disconnect() (lines 361-367)
BroadcastDisconnect ==
    /\ IF objects.broadcast = 0
       THEN UNCHANGED <<provider, objects>>
       ELSE /\ provider' = CloseChannel(provider, objects.broadcast)
            /\ objects' = [objects EXCEPT !.broadcast = 0]
    /\ UNCHANGED <<clientOk, clock, channels, subs, calcVars, apiVars, pageVars, trackerVars>>

\* ConsultationRoom.join(userInfo) (lines 394-443): the channel is created
\* and subscribed, then the consultation row is set to in_progress
RoomJoin ==
    /\ Len(provider) < MaxSubs
    /\ IF ClientMissing
       THEN UNCHANGED <<provider, objects>>
       ELSE /\ provider' = NewChannel(ConsultationChannelName, "joining")
            /\ objects' = [objects EXCEPT !.room = Len(provider) + 1,
                                          !.consultation = "in_progress"]
    /\ UNCHANGED <<clientOk, clock, channels, subs, calcVars, apiVars, pageVars, trackerVars>>

\* ConsultationRoom.updateStatus(status) (lines 477-488)
RoomUpdateStatus ==
    /\ provider' = IF objects.room = 0 THEN provider
                   ELSE Send(provider, objects.room)
    /\ UNCHANGED <<objects, clientOk, clock, channels, subs, calcVars, apiVars, pageVars, trackerVars>>

\* ConsultationRoom.leave() (lines 503-509) is called: with a channel it
\* calls this.channel.untrack() and awaits the answer
RoomLeave ==
    /\ objects.leave = "idle"
    /\ objects' = IF objects.room = 0 THEN objects
                  ELSE [objects EXCEPT !.leave = "untrack"]
    /\ UNCHANGED <<clientOk, clock, provider, channels, subs, calcVars, apiVars, pageVars, trackerVars>>

\* untrack() is answered: leave calls this.channel.unsubscribe() (line 506)
\* and awaits the answer
RoomLeaveUntracked ==
    /\ objects.leave = "untrack"
    /\ provider' = CloseChannel(provider, objects.room)
    /\ objects' = [objects EXCEPT !.leave = "unsubscribe"]
    /\ UNCHANGED <<clientOk, clock, channels, subs, calcVars, apiVars, pageVars, trackerVars>>

\* unsubscribe() is answered: this.channel = null (line 507)
RoomLeaveDone ==
    /\ objects.leave = "unsubscribe"
    /\ objects' = [objects EXCEPT !.room = 0, !.leave = "idle"]
    /\ UNCHANGED <<clientOk, clock, provider, channels, subs, calcVars, apiVars, pageVars, trackerVars>>

\* the closure returned by a subscribe call is called:
\* () => subscription.unsubscribe(), or the inert () => { }
CallUnsubscribe(i) ==
    /\ subs[i].unsubCalls < MaxUnsubCalls
    /\ subs' = [subs EXCEPT ![i].unsubCalls = @ + 1]
    /\ provider' = IF subs[i].chan = 0 THEN provider
                   ELSE CloseChannel(provider, subs[i].chan)
    /\ UNCHANGED <<objects, clientOk, clock, channels, calcVars, apiVars, pageVars, trackerVars>>

\* the tables ActivityFeed.start subscribes to for one user id, in order
FeedTables == <<"game_sessions", "user_achievements", "exercise_attempts">>

\* the closures TableSubscriptions.subscribe returns for the tables ts, one
\* call after the other, the first channel object being number first
TableClosures(kind, ts, first) ==
    [k \in DOMAIN ts |->
        Closure(kind, IF ClientMissing THEN 0 ELSE first + k - 1)]

\* the channel objects those calls create
TableChannels(ts) ==
    IF ClientMissing THEN << >>
    ELSE [k \in DOMAIN ts |->
             [name |-> TableChannelName(ts[k], clock), state |-> "joining",
              tracks |-> {}, sent |-> FALSE]]

\* the closures idx are called: each unsubscribes its channel
RECURSIVE CallClosures(_, _)
CallClosures(prov, idx) ==
    IF idx = << >> THEN prov
    ELSE CallClosures(IF subs[Head(idx)].chan = 0 THEN prov
                      ELSE CloseChannel(prov, subs[Head(idx)].chan),
                      Tail(idx))

\* NotificationListener.start() (lines 605-623): this.unsubscribe is assigned
\* the closure of a new subscription to the notifications table
ListenerStart ==
    /\ Len(subs) < MaxFeedSubs
    /\ provider' = provider \o TableChannels(<<"notifications">>)
    /\ subs' = subs \o TableClosures("listener", <<"notifications">>,
                                     Len(provider) + 1)
    /\ objects' = [objects EXCEPT !.listener = Len(subs) + 1]
    /\ UNCHANGED <<clientOk, clock, channels, calcVars, apiVars, pageVars, trackerVars>>

\* NotificationListener.stop() (lines 628-633)
ListenerStop ==
    /\ IF objects.listener = 0
       THEN UNCHANGED <<provider, subs, objects>>
       ELSE /\ provider' = CallClosures(provider, <<objects.listener>>)
            /\ subs' = [subs EXCEPT ![objects.listener].unsubCalls = @ + 1]
            /\ objects' = [objects EXCEPT !.listener = 0]
    /\ UNCHANGED <<clientOk, clock, channels, calcVars, apiVars, pageVars, trackerVars>>

\* ActivityFeed.start(targetUserIds) for one user id (lines 529-579): three
\* subscriptions, each closure pushed to this.subscriptions
FeedStart ==
    /\ Len(subs) + Len(FeedTables) <= MaxFeedSubs
    /\ provider' = provider \o TableChannels(FeedTables)
    /\ subs' = subs \o TableClosures("feed", FeedTables, Len(provider) + 1)
    /\ objects' = [objects EXCEPT
                      !.feed = @ \o [k \in DOMAIN FeedTables |->
                                        Len(subs) + k]]
    /\ UNCHANGED <<clientOk, clock, channels, calcVars, apiVars, pageVars, trackerVars>>

\* ActivityFeed.stop() (lines 584-587)
FeedStop ==
    /\ provider' = CallClosures(provider, objects.feed)
    /\ subs' = [i \in DOMAIN subs |->
                   IF \E k \in DOMAIN objects.feed : objects.feed[k] = i
                   THEN [subs[i] EXCEPT !.unsubCalls = @ + 1]
                   ELSE subs[i]]
    /\ objects' = [objects EXCEPT !.feed = << >>]
    /\ UNCHANGED <<clientOk, clock, channels, calcVars, apiVars, pageVars, trackerVars>>

-----------------------------------------------------------------------------
(* Backend API client (APIClient of frontend/doctor/doctor.js) *)

\* api: the call in flight.  op is the method, pc the await it is at
\* ("headers": getAuthHeaders, "fetch": fetch, "body": response.json() or
\* text()), elapsed the time since the call started, timer the state of the
\* setTimeout timer ("off": not set or cleared), deadline its delay, aborted
\* whether controller.abort() has run, status what fetch resolved to, result
\* what the call resolved to
NoApi == [op |-> "none", pc |-> "idle", elapsed |-> 0, timer |-> "off",
          deadline |-> 0, aborted |-> FALSE, status |-> "none",
          result |-> NoResult]

\* error.message of the AbortError a browser raises for an aborted fetch
AbortMessage == "The user aborted a request."

\* the call ends with result res
ApiReturn(res) ==
    api' = [api EXCEPT !.pc = "idle", !.timer = IF @ = "fired" THEN @ ELSE "off",
                       !.result = res]

\* request: catch (lines 1915-1925): clearTimeout; an AbortError becomes
\* {success: false, error: 'Request timeout'}, anything else
\* {success: false, error: error.message}
RequestCatch(name, message) ==
    ApiReturn([success |-> FALSE,
               error |-> IF name = "AbortError" THEN "Request timeout"
                         ELSE message])

\* postFormData: catch (lines 1990-1994): clearTimeout;
\* {success: false, error: error.message}
FormDataCatch(name, message) ==
    ApiReturn([success |-> FALSE, error |-> message])

ApiCatch(name, message) ==
    IF api.op = "request" THEN RequestCatch(name, message)
    ELSE FormDataCatch(name, message)

\* APIClient.request(endpoint, options) is called (lines 1881-1888): the
\* timer is set, getAuthHeaders is awaited
ApiRequest ==
    /\ api.pc = "idle"
    /\ api' = [NoApi EXCEPT !.op = "request", !.pc = "headers",
                            !.timer = "armed", !.deadline = API_TIMEOUT]
    /\ UNCHANGED <<calcVars, trackerVars, realtimeVars, pageVars>>

\* APIClient.postFormData(endpoint, formData) is called (lines 1967-1968):
\* getAuthHeaders is awaited, no timer yet
ApiPostFormData ==
    /\ api.pc = "idle"
    /\ api' = [NoApi EXCEPT !.op = "postFormData", !.pc = "headers"]
    /\ UNCHANGED <<calcVars, trackerVars, realtimeVars, pageVars>>

\* time passes while a call is in flight
ApiTick ==
    /\ api.pc # "idle"
    /\ api.elapsed < MaxApiTicks * API_TIMEOUT
    /\ api' = [api EXCEPT !.elapsed = @ + API_TIMEOUT]
    /\ UNCHANGED <<calcVars, trackerVars, realtimeVars, pageVars>>

\* the timer callback runs once its delay has passed: controller.abort()
ApiTimerFires ==
    /\ api.timer = "armed"
    /\ api.elapsed >= api.deadline
    /\ api' = [api EXCEPT !.timer = "fired", !.aborted = TRUE]
    /\ UNCHANGED <<calcVars, trackerVars, realtimeVars, pageVars>>

\* getAuthHeaders returns (it never throws: getSession catches, lines
\* 2675-2685); fetch is called with controller.signal.  postFormData sets its
\* timer here, with twice the delay, counted from this moment
ApiHeaders ==
    /\ api.pc = "headers"
    /\ api' = IF api.op = "request"
              THEN [api EXCEPT !.pc = "fetch"]
              ELSE [api EXCEPT !.pc = "fetch", !.timer = "armed",
                                !.deadline = api.elapsed + API_TIMEOUT * 2]
    /\ UNCHANGED <<calcVars, trackerVars, realtimeVars, pageVars>>

\* what fetch does when it is not aborted: a 2xx response, another response,
\* or a network failure
FetchOutcomes == {"ok", "http_error", "network_error"}

\* fetch settles.  An aborted signal makes it reject with an AbortError;
\* otherwise it resolves to a response (clearTimeout, then the body is
\* awaited) or rejects with a network error
ApiFetch ==
    /\ api.pc = "fetch"
    /\ IF api.aborted
       THEN ApiCatch("AbortError", AbortMessage)
       ELSE \E o \in FetchOutcomes :
              IF o = "network_error"
              THEN ApiCatch("TypeError", "Failed to fetch")
              ELSE api' = [api EXCEPT !.pc = "body", !.timer = "off",
                                      !.status = o]
    /\ UNCHANGED <<calcVars, trackerVars, realtimeVars, pageVars>>

\* the body is read: a parse failure or a response that is not ok throws
\* into the catch, otherwise the call returns {success: true, data}
ApiBody ==
    /\ api.pc = "body"
    /\ \E parsed \in BOOLEAN :
         IF ~parsed THEN ApiCatch("SyntaxError", "Unexpected token")
         ELSE IF api.status = "http_error" THEN ApiCatch("Error", "HTTP 500")
         ELSE ApiReturn([success |-> TRUE, data |-> TRUE])
    /\ UNCHANGED <<calcVars, trackerVars, realtimeVars, pageVars>>

ApiQuiet == api = NoApi

-----------------------------------------------------------------------------
(* Module page (CognoModules of unnamed/part_000) *)

\* modules: the CognoModules object of one module page and the store behind
\* it, for one user and one module.
\*   signedIn: this.user is set
\*   activity_progress: the rows of the table, by activity id
\*   activityProgress: this.activityProgress, the copy of the rows
\*     loadModuleProgress made when the page was loaded
\*   events: change events of activity_progress the provider has not yet
\*     delivered to the page
\*   user_achievements: the rows checkAchievements inserted
\*   pc: the await completeActivity is at ("upsert", "log", "ach": an insert
\*     of checkAchievements); call: its arguments and locals; queue: the
\*     achievements still to insert; n: the calls started
\*   toast, result: the last toast shown and what the call resolved to

\* a key without a row: every field read through `|| 0`
NoProgress == [completion_percentage |-> 0, best_score |-> 0, attempts |-> 0,
               total_time_spent |-> 0]

ModActivities == {"letter-match", "word-builder"}

NoModCall == [activityId |-> "", score |-> 0, percentage |-> 0, points |-> 0,
              record |-> NoProgress]

NoModules ==
    [signedIn |-> FALSE,
     activity_progress |-> [a \in ModActivities |-> NoProgress],
     activityProgress |-> [a \in ModActivities |-> NoProgress],
     events |-> << >>, user_achievements |-> << >>, pc |-> "idle",
     call |-> NoModCall, queue |-> << >>, n |-> 0, toast |-> "none",
     result |-> "none"]

\* completeActivity(activityId, score, maxScore, duration) as the activity
\* pages call it
Completions ==
    {<<"letter-match", 10, 10, 60>>, <<"letter-match", 5, 10, 150>>,
     <<"letter-match", 9, 10, 150>>, <<"word-builder", 10, 10, 150>>}

\* completeActivity (lines 577-598) up to the await of the upsert: the row to
\* write is built from this.activityProgress
CompleteActivity(a, score, maxScore, duration) ==
    /\ modules.pc = "idle"
    /\ modules.n < MaxCompletions
    /\ \E tieUp \in BOOLEAN :
         LET percentage == RoundPercent(score, maxScore, tieUp)
             cached == modules.activityProgress[a]
             record ==
                 [completion_percentage |->
                      Max(percentage, cached.completion_percentage),
                  best_score |-> Max(score, cached.best_score),
                  attempts |-> cached.attempts + 1,
                  total_time_spent |-> cached.total_time_spent + duration]
         IN  modules' =
                 IF ~modules.signedIn
                 THEN [modules EXCEPT !.n = @ + 1, !.call = NoModCall,
                                      !.toast = "none", !.result = "undefined"]
                 ELSE [modules EXCEPT
                          !.n = @ + 1, !.pc = "upsert", !.toast = "none",
                          !.result = "none",
                          !.call = [activityId |-> a, score |-> score,
                                    percentage |-> percentage,
                                    points |-> calculatePoints(percentage,
                                                               duration),
                                    record |-> record]]
    /\ UNCHANGED <<login, center, calcVars, trackerVars, realtimeVars, apiVars>>

\* the upsert of completeActivity is answered (lines 585-598): the row of the
\* key is replaced and the provider has a change event to deliver; an error
\* is thrown into the catch (lines 623-626)
ModulesUpsert ==
    /\ modules.pc = "upsert"
    /\ \E o \in {"ok", "error", "throw"} :
         modules' =
             IF o = "ok"
             THEN [modules EXCEPT
                      !.activity_progress[modules.call.activityId] =
                          modules.call.record,
                      !.events = Append(@, <<modules.call.activityId,
                                             modules.call.record>>),
                      !.pc = "log"]
             ELSE [modules EXCEPT !.pc = "idle", !.toast = "error",
                                  !.result = "undefined"]
    /\ UNCHANGED <<login, center, calcVars, trackerVars, realtimeVars, apiVars>>

\* return { points, percentage } (line 621)
ModulesReturn(m) == [m EXCEPT !.pc = "idle", !.queue = << >>, !.result = "points"]

\* CognoSupabase.logActivity is answered (it never throws); the success toast
\* is shown and checkAchievements (lines 652-672) collects the achievements
\* from this.activityProgress and the percentage
ModulesLog ==
    /\ modules.pc = "log"
    /\ LET a == modules.call.activityId
           first == IF modules.activityProgress[a] = NoProgress
                    THEN <<[type |-> "first_completion", activity_id |-> a]>>
                    ELSE << >>
           perfect == IF modules.call.percentage = 100
                      THEN <<[type |-> "perfect_score", activity_id |-> a]>>
                      ELSE << >>
           m == [modules EXCEPT !.toast = "success"]
       IN  modules' = IF first \o perfect = << >>
                      THEN ModulesReturn(m)
                      ELSE [m EXCEPT !.pc = "ach", !.queue = first \o perfect]
    /\ UNCHANGED <<login, center, calcVars, trackerVars, realtimeVars, apiVars>>

\* one insert of the loop of checkAchievements is answered (lines 675-691):
\* CognoSupabase.insert resolves with or without success and never throws,
\* the row is stored unless the store answered with an error
ModulesInsert ==
    /\ modules.pc = "ach"
    /\ \E o \in {"ok", "error"} :
         LET m == [modules EXCEPT
                      !.user_achievements =
                          IF o = "ok" THEN Append(@, Head(modules.queue))
                          ELSE @,
                      !.toast = "unlocked",
                      !.queue = Tail(@)]
         IN  modules' = IF m.queue = << >> THEN ModulesReturn(m) ELSE m
    /\ UNCHANGED <<login, center, calcVars, trackerVars, realtimeVars, apiVars>>

\* the change event of a written row reaches the page (lines 511-521):
\* this.activityProgress[payload.new.activity_id] = payload.new
ModulesRealtime ==
    /\ modules.events # << >>
    /\ modules' = [modules EXCEPT
                      !.activityProgress[Head(modules.events)[1]] =
                          Head(modules.events)[2],
                      !.events = Tail(@)]
    /\ UNCHANGED <<login, center, calcVars, trackerVars, realtimeVars, apiVars>>

-----------------------------------------------------------------------------
(* Login e-mail of the dashboard (CognoDashboard of js/realtime.js) *)

\* login: one browser session of the dashboard.
\*   user: this.user ("none": not set, "noemail": without an email address)
\*   emailApi: CognoAPI.Email is defined on the page
\*   flag: sessionStorage holds cogno_login_notified_<user id>
\*   pc: where each triggerLoginEmail call is ("send": awaiting
\*     sendLoginNotification); answer: what the send of the call resolved to
\*   invoked: the sendLoginNotification calls made
Triggers == 1 .. MaxTriggers

NoLogin == [user |-> "none", emailApi |-> FALSE, flag |-> FALSE,
            pc |-> [c \in Triggers |-> "idle"],
            answer |-> [c \in Triggers |-> "none"], invoked |-> 0]

\* CognoDashboard.init reaches this.triggerLoginEmail() (line 764), which
\* runs up to the await of sendLoginNotification (lines 772-787); the calls
\* are numbered in the order they start
TriggerLoginEmail(c) ==
    /\ login.pc[c] = "idle"
    /\ \A d \in Triggers : d < c => login.pc[d] # "idle"
    /\ login' =
           IF \/ login.user # "email"
              \/ login.flag
              \/ ~login.emailApi
           THEN [login EXCEPT !.pc[c] = "done"]
           ELSE [login EXCEPT !.pc[c] = "send", !.invoked = @ + 1]
    /\ UNCHANGED <<modules, center, calcVars, trackerVars, realtimeVars, apiVars>>

\* sendLoginNotification resolves (the API client resolves every call, with
\* the response or with a failure object): the session flag is set
\* (lines 789-790)
LoginEmailAnswered(c) ==
    /\ login.pc[c] = "send"
    /\ \E o \in {"sent", "failed"} :
         login' = [login EXCEPT !.pc[c] = "done", !.answer[c] = o,
                                !.flag = TRUE]
    /\ UNCHANGED <<modules, center, calcVars, trackerVars, realtimeVars, apiVars>>

-----------------------------------------------------------------------------
(* Notification center (NotificationCenter of frontend/js/utils.js) *)

\* center: one NotificationCenter constructed with
\* { maxNotifications: maxNotifications } over an empty localStorage.
\*   notifications: this.notifications, newest first, each with id and read
\*   unreadCount: this.unreadCount
\*   stored: what saveToStorage last wrote
\*   n: the calls made
NoCenter == [notifications |-> << >>, unreadCount |-> 0,
             stored |-> [notifications |-> << >>, unreadCount |-> 0],
             n |-> 0]

NotificationIds == {"n1", "n2"}

\* saveToStorage() (lines 1405-1414) at the end of a call, and the call is
\* counted
Saved(c) ==
    [c EXCEPT !.stored = [notifications |-> c.notifications,
                          unreadCount |-> c.unreadCount],
              !.n = @ + 1]

\* this.notifications.findIndex(n => n.id === id), 0 when there is none
FindIndex(list, id) ==
    IF \E i \in DOMAIN list : list[i].id = id
    THEN CHOOSE i \in DOMAIN list :
             /\ list[i].id = id
             /\ \A j \in DOMAIN list : list[j].id = id => i <= j
    ELSE 0

\* add(notification) (lines 1124-1161)
CenterAdd(id, read) ==
    /\ center.n < MaxCenterCalls
    /\ LET unshifted == <<[id |-> id, read |-> read]>> \o center.notifications
           limited == IF Len(unshifted) > maxNotifications
                      THEN SubSeq(unshifted, 1, maxNotifications)
                      ELSE unshifted
       IN  center' = Saved([center EXCEPT
                               !.notifications = limited,
                               !.unreadCount = IF read THEN @ ELSE @ + 1])
    /\ UNCHANGED <<modules, login, calcVars, trackerVars, realtimeVars, apiVars>>

\* markAsRead(id) (lines 1167-1176)
CenterMarkAsRead(id) ==
    /\ center.n < MaxCenterCalls
    /\ LET i == FindIndex(center.notifications, id)
       IN  center' =
               IF i # 0 /\ ~center.notifications[i].read
               THEN Saved([center EXCEPT
                              !.notifications[i].read = TRUE,
                              !.unreadCount = Max(0, @ - 1)])
               ELSE [center EXCEPT !.n = @ + 1]
    /\ UNCHANGED <<modules, login, calcVars, trackerVars, realtimeVars, apiVars>>

\* markAllAsRead() (lines 1181-1187)
CenterMarkAllAsRead ==
    /\ center.n < MaxCenterCalls
    /\ center' = Saved([center EXCEPT
                           !.notifications =
                               [i \in DOMAIN center.notifications |->
                                   [center.notifications[i] EXCEPT
                                       !.read = TRUE]],
                           !.unreadCount = 0])
    /\ UNCHANGED <<modules, login, calcVars, trackerVars, realtimeVars, apiVars>>

\* remove(id) (lines 1193-1205)
CenterRemove(id) ==
    /\ center.n < MaxCenterCalls
    /\ LET list == center.notifications
           i == FindIndex(list, id)
       IN  center' =
               IF i # 0
               THEN Saved([center EXCEPT
                              !.notifications =
                                  SubSeq(list, 1, i - 1)
                                    \o SubSeq(list, i + 1, Len(list)),
                              !.unreadCount = IF list[i].read THEN @
                                              ELSE Max(0, @ - 1)])
               ELSE [center EXCEPT !.n = @ + 1]
    /\ UNCHANGED <<modules, login, calcVars, trackerVars, realtimeVars, apiVars>>

\* clear() (lines 1210-1216)
CenterClear ==
    /\ center.n < MaxCenterCalls
    /\ center' = Saved([center EXCEPT !.notifications = << >>,
                                      !.unreadCount = 0])
    /\ UNCHANGED <<modules, login, calcVars, trackerVars, realtimeVars, apiVars>>


PagesQuiet == modules = NoModules /\ login = NoLogin /\ center = NoCenter

-----------------------------------------------------------------------------
(* Initial states *)

CalcQuiet == calc = NoCalc /\ ApiQuiet /\ PagesQuiet

RealtimeQuiet ==
    /\ clientOk = TRUE
    /\ clock = 0
    /\ provider = << >>
    /\ channels = << >>
    /\ subs = << >>
    /\ objects = NoObjects

\* a student who has played before: every dyslexia activity but letter-match
\* and text-reader was saved with 70 of 100, which earned first_activity
PlayedBefore == ModuleActivities("dyslexia") \ {"letter-match", "text-reader"}
EarlierActivity(a) ==
    [moduleId |-> "dyslexia", activityId |-> a, score |-> 70,
     maxScore |-> 0, duration |-> 150]
EarlierProgress ==
    {ProgressRecord(Student, EarlierActivity(a), 100, 70) : a \in PlayedBefore}
EarlierAchievements == <<AchievementRow(Student, FirstActivity, 70)>>

TrackerObjectsInit ==
    /\ user = [t \in Tabs |-> NoUser]
    /\ pc = [q \in Procs |-> "idle"]
    /\ act = [t \in Tabs |-> NoActivity]
    /\ loc = [t \in Tabs |-> NoLoc]
    /\ result = [t \in Tabs |-> NoResult]
    /\ feedback = [t \in Tabs |-> "none"]
    /\ io = [t \in Tabs |-> NoIo]
    /\ award = NoAward
    /\ calls = 0
    /\ lookupFailed = FALSE

TrackerQuiet ==
    /\ session = NoUser
    /\ student_progress = {}
    /\ activity_logs = << >>
    /\ user_achievements = << >>
    /\ notifications = << >>
    /\ overlap = FALSE
    /\ TrackerObjectsInit

\* pages freshly loaded: nobody or the student is signed in; the student is
\* new or has played before
TrackerInitStates ==
    /\ session \in {NoUser, Student}
    /\ \E played \in BOOLEAN :
         /\ student_progress = IF played THEN EarlierProgress ELSE {}
         /\ user_achievements = IF played THEN EarlierAchievements ELSE << >>
    /\ activity_logs = << >>
    /\ notifications = << >>
    /\ TrackerObjectsInit

-----------------------------------------------------------------------------
(* Specifications *)

\* calls of one tracker and of the progress page, one after the other
Init ==
    /\ TrackerInitStates
    /\ overlap = FALSE
    /\ CalcQuiet
    /\ RealtimeQuiet

Next ==
    \/ \E t \in ActiveTabs : TrackerInit(t)
    \/ \E t \in ActiveTabs, a \in ActivityInputs : SaveActivity(t, a)
    \/ \E t \in ActiveTabs : GetUser(t)
    \/ \E t \in ActiveTabs : UpsertProgress(t)
    \/ \E t \in ActiveTabs : LogHistory(t)
    \/ \E t \in ActiveTabs : AchAllProgress(t)
    \/ \E t \in ActiveTabs : AchModuleProgress(t)
    \/ \E t \in ActiveTabs : AchLookup(t)
    \/ \E t \in ActiveTabs : AchInsert(t)
    \/ \E t \in ActiveTabs : NotifyLink(t)
    \/ \E t \in ActiveTabs : NotifyInsert(t)
    \/ \E aid \in AwardIds : AwardAchievement(aid)
    \/ AwardLookup
    \/ AwardInsert

Spec == Init /\ [][Next]_vars

\* two tabs of one student: saveActivity executions interleave at their awaits
InitOverlap ==
    /\ TrackerInitStates
    /\ overlap = TRUE
    /\ CalcQuiet
    /\ RealtimeQuiet

NextOverlap ==
    \/ \E t \in Tabs : TrackerInit(t)
    \/ \E t \in Tabs, a \in ActivityInputs : SaveActivity(t, a)
    \/ \E t \in Tabs : GetUser(t)
    \/ \E t \in Tabs : UpsertProgress(t)
    \/ \E t \in Tabs : LogHistory(t)
    \/ \E t \in Tabs : AchAllProgress(t)
    \/ \E t \in Tabs : AchModuleProgress(t)
    \/ \E t \in Tabs : AchLookup(t)
    \/ \E t \in Tabs : AchInsert(t)
    \/ \E t \in Tabs : NotifyLink(t)
    \/ \E t \in Tabs : NotifyInsert(t)

SpecOverlap == InitOverlap /\ [][NextOverlap]_vars

\* the realtime layer of one page
InitRealtime ==
    /\ clientOk \in BOOLEAN
    /\ clock = 0
    /\ provider = << >>
    /\ channels = << >>
    /\ subs = << >>
    /\ objects = NoObjects
    /\ CalcQuiet
    /\ TrackerQuiet

NextRealtime ==
    \/ Tick
    \/ \E name \in ManagerNames : ManagerSubscribe(name)
    \/ \E name \in ManagerNames : ManagerUnsubscribe(name)
    \/ UnsubscribeAll
    \/ \E table \in Tables : TableSubscribe(table)
    \/ SubscribeToChildActivities
    \/ SubscribeToProgress(Student)
    \/ \E c \in DOMAIN provider : Subscribed(c)
    \/ \E i \in DOMAIN subs : CallUnsubscribe(i)
    \/ PresenceInit
    \/ PresenceUpdate
    \/ PresenceDestroy
    \/ BroadcastConnect
    \/ BroadcastSend
    \/ BroadcastDisconnect
    \/ RoomJoin
    \/ RoomUpdateStatus
    \/ RoomLeave
    \/ RoomLeaveUntracked
    \/ RoomLeaveDone

SpecRealtime == InitRealtime /\ [][NextRealtime]_vars

\* a NotificationListener and an ActivityFeed of one page
NextListeners ==
    \/ Tick
    \/ ListenerStart
    \/ ListenerStop
    \/ FeedStart
    \/ FeedStop
    \/ \E c \in DOMAIN provider : Subscribed(c)

SpecListeners == InitRealtime /\ [][NextListeners]_vars

\* calls through the backend API client, one after the other
InitApi == CalcQuiet /\ TrackerQuiet /\ RealtimeQuiet

NextApi ==
    \/ ApiRequest
    \/ ApiPostFormData
    \/ ApiTick
    \/ ApiTimerFires
    \/ ApiHeaders
    \/ ApiFetch
    \/ ApiBody

SpecApi == InitApi /\ [][NextApi]_vars

\* the pure calculations on their own
InitCalc == CalcQuiet /\ TrackerQuiet /\ RealtimeQuiet

NextCalc == ComputePercentage \/ ComputePoints

SpecCalc == InitCalc /\ [][NextCalc]_vars

\* a module page after CognoModules.init (lines 95-120): nobody or the user
\* is signed in; the user is new to the module or has played letter-match
\* before; loadModuleProgress (lines 400-440) has copied the rows or failed
StoredBefore ==
    [NoModules.activity_progress EXCEPT
        !["letter-match"] = [completion_percentage |-> 70, best_score |-> 7,
                             attempts |-> 1, total_time_spent |-> 150]]

InitModules ==
    /\ \E signedIn \in BOOLEAN, played \in BOOLEAN, loaded \in BOOLEAN :
         modules =
             [NoModules EXCEPT
                 !.signedIn = signedIn,
                 !.activity_progress =
                     IF played THEN StoredBefore ELSE @,
                 !.activityProgress =
                     IF played /\ loaded /\ signedIn THEN StoredBefore ELSE @]
    /\ login = NoLogin
    /\ center = NoCenter
    /\ calc = NoCalc
    /\ ApiQuiet
    /\ TrackerQuiet
    /\ RealtimeQuiet

NextModules ==
    \/ \E c \in Completions : CompleteActivity(c[1], c[2], c[3], c[4])
    \/ ModulesUpsert
    \/ ModulesLog
    \/ ModulesInsert
    \/ ModulesRealtime

SpecModules == InitModules /\ [][NextModules]_vars

\* a browser session in which the dashboard is opened: this.user is not set,
\* has no email address or has one, the page has loaded the API client or
\* not, and no login e-mail was sent yet
InitLogin ==
    /\ \E u \in {"none", "noemail", "email"}, e \in BOOLEAN :
         login = [NoLogin EXCEPT !.user = u, !.emailApi = e]
    /\ modules = NoModules
    /\ center = NoCenter
    /\ calc = NoCalc
    /\ ApiQuiet
    /\ TrackerQuiet
    /\ RealtimeQuiet

NextLogin ==
    \/ \E c \in Triggers : TriggerLoginEmail(c)
    \/ \E c \in Triggers : LoginEmailAnswered(c)

SpecLogin == InitLogin /\ [][NextLogin]_vars

\* a notification center freshly constructed
InitCenter ==
    /\ center = NoCenter
    /\ modules = NoModules
    /\ login = NoLogin
    /\ calc = NoCalc
    /\ ApiQuiet
    /\ TrackerQuiet
    /\ RealtimeQuiet

NextCenter ==
    \/ \E id \in NotificationIds, read \in BOOLEAN : CenterAdd(id, read)
    \/ \E id \in NotificationIds : CenterMarkAsRead(id)
    \/ CenterMarkAllAsRead
    \/ \E id \in NotificationIds : CenterRemove(id)
    \/ CenterClear

SpecCenter == InitCenter /\ [][NextCenter]_vars

-----------------------------------------------------------------------------
(* Properties *)

\* the last saveActivity call of tab t has returned
Done(t) == pc[t] = "idle" /\ result[t] # NoResult

\* the call of t had both required fields
HasFields(t) == act[t].moduleId # "" /\ act[t].activityId # ""

\* the student_progress row of the key the call of t wrote to
RowOf(t) ==
    {r \in student_progress :
        /\ r.student_id = user[t]
        /\ r.module_type = act[t].moduleId
        /\ r.activity_id = act[t].activityId}

\* C1: for every score >= 0 and every maxScore > 0 the percentage of
\* saveActivity, min(100, round(score / maxScore * 100)), equals
\* round(min(score, maxScore) / maxScore * 100) and lies in 0..100.
C1_PercentageClamped ==
    calc.op = "percentage" =>
        /\ calc.maxScore > 0
        /\ calc.value = RoundPercent(Min(calc.score, calc.maxScore),
                                     calc.maxScore, calc.tieUp)
        /\ calc.value \in 0 .. 100

\* C1 witness: a score above maxScore was clamped to 100
C1_Witness ==
    /\ calc.op = "percentage"
    /\ calc.score > calc.maxScore
    /\ calc.value = 100

\* C2: every progress row has completed = true exactly when the percentage of
\* the attempt it records is >= 50, and the row a successful call wrote
\* records the percentage of that call.
C2_CompletedIffHalf ==
    /\ \A r \in student_progress :
          r.completed <=> r.completion_percentage >= 50
    /\ \A t \in Tabs :
          Done(t) /\ io[t].upsert = "ok" =>
              \A r \in RowOf(t) :
                  /\ r.completion_percentage = loc[t].percentage
                  /\ r.completed <=> loc[t].percentage >= 50

\* C2 witness: a row of 49 percent that is not completed beside a row of
\* 50 percent that is
C2_Witness ==
    /\ \E r \in student_progress :
          r.completion_percentage = 49 /\ ~r.completed
    /\ \E r \in student_progress :
          r.completion_percentage = 50 /\ r.completed

\* round(percentage / 10): the integer k with 10k - 5 <= percentage < 10k + 5
NearestTen(percentage) ==
    CHOOSE k \in 0 .. 10 : 10 * k - 5 <= percentage /\ percentage < 10 * k + 5

\* C3: calculatePoints(percentage, duration) is round(percentage / 10) * 10,
\* plus 10 if duration < 120, plus 25 if percentage = 100; calculatePoints of
\* (100, 60), (100, 150), (50, 300), (0, 10) is 135, 125, 50, 10.
C3_Points ==
    calc.op = "points" =>
        /\ calc.value = NearestTen(calc.percentage) * 10
                          + (IF calc.duration < 120 THEN 10 ELSE 0)
                          + (IF calc.percentage = 100 THEN 25 ELSE 0)
        /\ calc.percentage = 100 /\ calc.duration = 60 => calc.value = 135
        /\ calc.percentage = 100 /\ calc.duration = 150 => calc.value = 125
        /\ calc.percentage = 50 /\ calc.duration = 300 => calc.value = 50
        /\ calc.percentage = 0 /\ calc.duration = 10 => calc.value = 10

\* C3 witness: calculatePoints(100, 60) was computed and is 135
C3_Witness ==
    /\ calc.op = "points"
    /\ calc.percentage = 100
    /\ calc.duration = 60
    /\ calc.value = 135

AchievementIds ==
    {"first_activity", "perfect_dyslexia", "mastery_dyslexia", "streak_7"}

C5_GuestNoPersistence ==
    \A t \in Tabs :
        /\ pc[t] \notin {"idle", "get_user"} => user[t] # NoUser
        /\ Done(t) /\ HasFields(t) /\ user[t] = NoUser =>
              /\ result[t] = [success |-> TRUE, guest |-> TRUE]
              /\ io[t].dbCalls = 0
              /\ io[t].upsert = "none"
              /\ ~io[t].notifyInvoked
              /\ io[t].unlocked = {}
              /\ io[t].notified = 0

\* C5 witness: a guest call has returned
C5_Witness ==
    /\ Done("tab1")
    /\ HasFields("tab1")
    /\ user["tab1"] = NoUser
    /\ result["tab1"] = [success |-> TRUE, guest |-> TRUE]

\* C6: a call that recorded an attempt invoked notifyDoctor exactly when its
\* percentage is >= 80 (79: never, 80: always); a call that recorded nothing
\* never invoked it.
C6_NotifyThreshold ==
    \A t \in Tabs :
        Done(t) =>
            IF "percentage" \in DOMAIN result[t]
            THEN io[t].notifyInvoked <=> result[t].percentage >= 80
            ELSE ~io[t].notifyInvoked

\* C6 witness: an attempt of 79 percent was recorded without notifyDoctor
C6_Witness ==
    /\ Done("tab1")
    /\ "percentage" \in DOMAIN result["tab1"]
    /\ result["tab1"].percentage = 79
    /\ ~io["tab1"].notifyInvoked

\* the channel name of an unsubscribe closure
SubName(i) == provider[subs[i].chan].name

\* C7 as stated: the first call of the unsubscribe function of a table-change
\* subscription removes the subscription's channel from
\* realtimeManager.channels (the channel was registered and no longer is).
C7_UnsubscribeRemovesFromRegistry ==
    [][\A i \in DOMAIN subs :
          subs[i].chan # 0 /\ subs[i].unsubCalls = 0
              /\ subs'[i].unsubCalls = 1 =>
                  /\ SubName(i) \in DOMAIN channels
                  /\ SubName(i) \notin DOMAIN channels']_vars

\* the end-to-end attempt: letter-match of dyslexia, score = maxScore = 13,
\* 90 seconds
EndToEnd == Activity("dyslexia", "letter-match", <<"letter-match", 13, 13, 90>>)

\* the end-to-end call of an identified student has returned, every
\* collaborator answered, and the student had one active doctor link
EndToEndDone(t) ==
    /\ Done(t)
    /\ act[t] = EndToEnd
    /\ user[t] = Student
    /\ ~io[t].faulted
    /\ io[t].notify # "no_link"

\* what the end-to-end call leaves apart from points: percentage 100, the row
\* completed, perfect_dyslexia earned, one "achievement" notification
EndToEndEffects(t) ==
    /\ "percentage" \in DOMAIN result[t]
    /\ result[t].success
    /\ result[t].percentage = 100
    /\ RowOf(t) # {}
    /\ \A r \in RowOf(t) : r.completed /\ r.completion_percentage = 100
    /\ AchievementRows(Student, "perfect_dyslexia") # {}
    /\ "perfect_dyslexia" \in io[t].unlocked \cup io[t].existing
    /\ io[t].notified = 1
    /\ notifications # << >>
    /\ notifications[Len(notifications)].type = "achievement"
    /\ notifications[Len(notifications)].user_id = "d1"
    /\ notifications[Len(notifications)].patient_id = Student

C9_FeedbackOnWriteFailure ==
    \A t \in Tabs :
        Done(t) /\ io[t].upsert \in {"error", "throw"} =>
            /\ feedback[t] = "local"
            /\ DOMAIN result[t] = {"success", "error"}
            /\ ~result[t].success

\* C10: whatever the link lookup or the notification insert does, notifyDoctor
\* returns to saveActivity, which shows the success feedback and returns
\* {success: true, data, percentage}.
C10_NotifyBestEffort ==
    \A t \in Tabs :
        Done(t) /\ io[t].notifyInvoked =>
            /\ io[t].notify # "none"
            /\ feedback[t] = "success"
            /\ result[t] = [success |-> TRUE, data |-> TRUE,
                            percentage |-> loc[t].percentage]

\* C10 witness: the notification insert threw and the call still succeeded
C10_Witness ==
    /\ Done("tab1")
    /\ io["tab1"].notify = "insert_throw"
    /\ feedback["tab1"] = "success"
    /\ result["tab1"].success

\* the doctors of the active links of student uid in a doctor_patients table
ActiveDoctors(table, uid) ==
    {l.doctor_id : l \in {k \in table : k.patient_id = uid
                                          /\ k.status = "active"}}

\* the step appends one row to notifications
NotificationInserted ==
    /\ Len(notifications') = Len(notifications) + 1
    /\ SubSeq(notifications', 1, Len(notifications)) = notifications

\* C11: every notification row inserted is addressed to the doctor of an
\* active link of the recording student, has read = false and has type
\* "achievement" exactly when the percentage is >= 90 ("info" otherwise);
\* a call whose link lookup met no active link of the student inserts none.
C11_NotificationRows ==
    /\ [](\A t \in Tabs :
            Done(t) /\ io[t].activeLinks = 0 => io[t].notified = 0)
    /\ [][/\ notifications' # notifications => NotificationInserted
          /\ NotificationInserted =>
               \E t \in Tabs :
                  LET row == notifications'[Len(notifications')] IN
                  /\ pc[t] = "notify_insert"
                  /\ row.user_id \in ActiveDoctors(loc[t].links, user[t])
                  /\ row.patient_id = user[t]
                  /\ row.read = FALSE
                  /\ row.type \in {"achievement", "info"}
                  /\ row.type = "achievement" <=> loc[t].percentage >= 90
                  /\ row.percentage = loc[t].percentage]_vars

\* C11 witness: an "info" row of an 80 percent attempt and an "achievement"
\* row of a 100 percent attempt, both unread and addressed to doctor d1
C11_Witness ==
    /\ \E i \in DOMAIN notifications :
          /\ notifications[i].type = "info"
          /\ notifications[i].percentage = 80
          /\ notifications[i].user_id = "d1"
          /\ ~notifications[i].read
    /\ \E i \in DOMAIN notifications :
          /\ notifications[i].type = "achievement"
          /\ notifications[i].percentage = 100

\* the (student, module, activity) key of a progress row
KeyOf(r) == <<r.student_id, r.module_type, r.activity_id>>

\* C12: under every interleaving of saveActivity calls student_progress holds
\* at most one row per (student, module, activity); no key ever disappears;
\* a step that changes the table is the upsert of one call, after which the
\* row of its key carries exactly the values of that call (score, maxScore,
\* duration, percentage, completed, attempts = 1) and every other row is
\* unchanged.
C12_LastWriteWins ==
    /\ [](\A r, q \in student_progress : KeyOf(r) = KeyOf(q) => r = q)
    /\ [][/\ {KeyOf(r) : r \in student_progress}
                \subseteq {KeyOf(r) : r \in student_progress'}
          /\ student_progress' # student_progress =>
               \E t \in Tabs :
                  /\ pc[t] = "upsert"
                  /\ \E w \in student_progress' :
                        /\ KeyOf(w) = <<user[t], act[t].moduleId,
                                        act[t].activityId>>
                        /\ w.score = act[t].score
                        /\ w.max_score = loc[t].maxScore
                        /\ w.time_spent_seconds = act[t].duration
                        /\ w.completion_percentage = loc[t].percentage
                        /\ w.completed = (loc[t].percentage >= 50)
                        /\ w.attempts = 1
                        /\ \A q \in student_progress' \ {w} :
                              q \in student_progress /\ KeyOf(q) # KeyOf(w)]_vars

\* C12 witness: both tabs wrote the letter-match key, tab2 while tab1 was
\* still running, and the one row of the key carries the later write
C12_Witness ==
    /\ overlap
    /\ io["tab1"].upsert = "ok"
    /\ io["tab2"].upsert = "ok"
    /\ pc["tab1"] = "notify_link"
    /\ act["tab1"].activityId = "letter-match"
    /\ act["tab2"].activityId = "letter-match"
    /\ loc["tab1"].percentage = 100
    /\ loc["tab2"].percentage = 50
    /\ \E r \in student_progress :
          /\ r.activity_id = "letter-match"
          /\ r.completion_percentage = 50
    /\ Cardinality({r \in student_progress :
                       r.activity_id = "letter-match"}) = 1

\* C13 as stated: under every interleaving of two saveActivity executions of
\* one user, user_achievements never holds more than one row of the same
\* (user, achievement id).
C13_UniqueUnderInterleaving ==
    overlap =>
        \A aid \in AchievementIds, uid \in {Student} :
            Cardinality(AchievementRows(uid, aid)) <= 1

\* C14 as stated: track is never called on a presence channel (of
\* PresenceTracker or ConsultationRoom) before the provider has signalled
\* SUBSCRIBED for that channel.
C14_TrackAfterSubscribed ==
    \A c \in DOMAIN provider :
        TrackingOwner(provider[c].name) # "none" =>
            "joining" \notin provider[c].tracks

\* the channel of closure i is open: created and not yet unsubscribed
OpenSub(i) ==
    /\ subs[i].chan # 0
    /\ provider[subs[i].chan].state \in {"joining", "joined"}

\* C15 as stated: any two table-change subscriptions open at the same time
\* use different channel names, whatever tables they target and whatever
\* Date.now() each subscribe call read.
C15_DistinctChannelNames ==
    \A i, j \in DOMAIN subs :
        i # j /\ subs[i].kind = "table" /\ subs[j].kind = "table"
              /\ OpenSub(i) /\ OpenSub(j) =>
            SubName(i) # SubName(j)

\* every channel object the provider knows is open and is in the registry
\* realtimeManager.channels
InRegistry(c) == \E n \in DOMAIN channels : channels[n] = c

\* C16 as stated: the registry realtimeManager.channels holds every realtime
\* channel that is currently open (so that the sweep of unsubscribeAll leaves
\* no channel subscribed).
C16_RegistryHoldsOpenChannels ==
    \A c \in DOMAIN provider :
        provider[c].state \in {"created", "joining", "joined"} => InRegistry(c)

\* C17: without a realtime client no subscription operation opens a channel
\* or throws: every unsubscribe function handed out is inert, however often
\* it is called; PresenceTracker, BroadcastChannel and ConsultationRoom keep
\* this.channel = null, so send, track, destroy, disconnect and leave do
\* nothing; the registry stays empty and the consultation row is not touched.
C17_NoClientNoOp ==
    ~clientOk =>
        /\ provider = << >>
        /\ channels = << >>
        /\ \A i \in DOMAIN subs : subs[i].chan = 0
        /\ objects.presence = 0
        /\ objects.broadcast = 0
        /\ objects.room = 0
        /\ objects.consultation = "scheduled"
        /\ ~objects.threw

\* C17 witness: without a client a table subscription and a progress
\* subscription were made and the inert function of each was called twice
C17_Witness ==
    /\ ~clientOk
    /\ Len(subs) = 2
    /\ {subs[1].kind, subs[2].kind} = {"table", "progress"}
    /\ subs[1].unsubCalls = 2
    /\ subs[2].unsubCalls = 2
    /\ provider = << >>

\* C18: every saveActivity call that has ended, whatever its input and
\* whatever its collaborators did, resolved to a result with a boolean success
\* field; the result is {success: false, error} when a required field is
\* missing or the progress write failed (error result or exception).
C18_AlwaysResolves ==
    \A t \in Tabs :
        Done(t) =>
            /\ "success" \in DOMAIN result[t]
            /\ result[t].success \in BOOLEAN
            /\ ~HasFields(t) \/ io[t].upsert \in {"error", "throw"} =>
                  /\ DOMAIN result[t] = {"success", "error"}
                  /\ result[t].success = FALSE

\* C18 witness: the upsert threw and the call resolved to
\* {success: false, error}
C18_Witness ==
    /\ Done("tab1")
    /\ HasFields("tab1")
    /\ io["tab1"].upsert = "throw"
    /\ DOMAIN result["tab1"] = {"success", "error"}
    /\ ~result["tab1"].success

\* an API call has ended
ApiDone == api.pc = "idle" /\ api.op # "none"

\* C19 as stated: every call through APIClient.request or
\* APIClient.postFormData that its timeout timer aborted resolves to
\* {success: false, error: "Request timeout"}; a call that ended without the
\* timer firing has cleared the timer and reports no timeout.
C19_TimeoutReported ==
    ApiDone =>
        IF api.aborted
        THEN api.result = [success |-> FALSE, error |-> "Request timeout"]
        ELSE /\ api.timer = "off"
             /\ "success" \in DOMAIN api.result
             /\ "error" \in DOMAIN api.result =>
                   api.result.error # "Request timeout"

\* the awaits of checkAchievements and of notifyDoctor
AchSteps == {"ach_all", "ach_module", "ach_lookup", "ach_insert"}
NotifySteps == {"notify_link", "notify_insert"}

\* the call of tab t takes this step
StepOf(t) == <<pc[t], io[t]>>' # <<pc[t], io[t]>>

\* the call of tab t returns its success result, with the success feedback
ReturnsSuccess(t) ==
    /\ pc'[t] = "idle"
    /\ feedback'[t] = "success"
    /\ result'[t] = [success |-> TRUE, data |-> TRUE,
                     percentage |-> loc[t].percentage]

\* C20: in a saveActivity execution of an identified user whose upsert
\* succeeds, the steps follow one another in this order, each after the
\* previous one has returned: the upsert (the only step that writes
\* student_progress), the history log (the only one that writes
\* activity_logs), the achievement evaluation (the only one that writes
\* user_achievements), notifyDoctor exactly when the percentage is >= 80 (the
\* only one that writes notifications), then the success feedback together
\* with the return of the result.
C20_EffectOrder ==
    [][\A t \in Tabs :
          StepOf(t) =>
              /\ pc[t] = "upsert" /\ pc'[t] # "idle" =>
                    /\ pc'[t] = "log"
                    /\ RowOf(t)' # {}
              /\ pc'[t] = "log" => pc[t] = "upsert"
              /\ pc[t] = "log" => pc'[t] = "ach_all"
              /\ pc'[t] = "ach_all" => pc[t] = "log"
              /\ pc'[t] \in AchSteps \ {"ach_all"} => pc[t] \in AchSteps
              /\ pc[t] \in AchSteps /\ pc'[t] \notin AchSteps =>
                    IF loc[t].percentage >= 80
                    THEN pc'[t] = "notify_link" /\ feedback'[t] = "none"
                    ELSE ReturnsSuccess(t)
              /\ pc'[t] = "notify_link" =>
                    pc[t] \in AchSteps /\ loc[t].percentage >= 80
              /\ pc'[t] = "notify_insert" => pc[t] = "notify_link"
              /\ pc[t] \in NotifySteps /\ pc'[t] \notin NotifySteps =>
                    ReturnsSuccess(t)
              /\ feedback'[t] = "success" =>
                    pc[t] \in AchSteps \cup NotifySteps /\ ReturnsSuccess(t)
              /\ student_progress' # student_progress => pc[t] = "upsert"
              /\ activity_logs' # activity_logs => pc[t] = "log"
              /\ user_achievements' # user_achievements =>
                    pc[t] = "ach_insert"
              /\ notifications' # notifications => pc[t] = "notify_insert"]_vars

\* C20 witness: a call went through every stage: its row is written, its log
\* record appended, an achievement inserted, a notification inserted, the
\* success feedback shown and the result returned
C20_Witness ==
    /\ Done("tab1")
    /\ io["tab1"].upsert = "ok"
    /\ RowOf("tab1") # {}
    /\ activity_logs # << >>
    /\ io["tab1"].unlocked # {}
    /\ io["tab1"].notified = 1
    /\ feedback["tab1"] = "success"
    /\ result["tab1"].success

\* the call of tab t met no failure other than, possibly, that of its upsert
OnlyUpsertMayHaveFailed(t) ==
    \/ io[t].upsert \in {"error", "throw"}
    \/ io[t].upsert = "ok" /\ ~io[t].faulted

\* C21 as stated: every saveActivity call of an identified user with both
\* fields appends exactly one history record, also when the upsert of the
\* progress row fails.
C21_OneLogRecordPerCall ==
    \A t \in Tabs :
        Done(t) /\ HasFields(t) /\ user[t] # NoUser
                /\ OnlyUpsertMayHaveFailed(t) =>
            io[t].logged = 1

\* the call of tab t wrote its row and every collaborator answered
Healthy(t) == Done(t) /\ io[t].upsert = "ok" /\ ~io[t].faulted

\* C22 as stated: checkAchievements puts first_activity into
\* achievementsToCheck exactly when the attempt just recorded is the first
\* attempt the user ever recorded (the user had no progress row before it);
\* a second or later attempt never qualifies.
C22_FirstActivityOnlyOnce ==
    \A t \in Tabs :
        Healthy(t) =>
            ("first_activity" \in io[t].qualified <=> io[t].priorRows = 0)

\* the activity ids of module m the user has a completed row for
CompletedIds(uid, m) ==
    {r.activity_id : r \in {q \in student_progress :
                               /\ q.student_id = uid
                               /\ q.module_type = m
                               /\ q.completed}}

C24_AttemptsCountCompletions ==
    [][\A t \in Tabs :
          pc[t] = "upsert" /\ pc'[t] = "log" =>
              \A r \in student_progress' :
                  KeyOf(r) = <<user[t], act[t].moduleId, act[t].activityId>> =>
                      r.attempts =
                          IF RowOf(t) = {} THEN 1
                          ELSE (CHOOSE q \in RowOf(t) : TRUE).attempts + 1]_vars

C26_LoginEmailAtMostOnce == login.invoked <= 1

\* the stored notifications with read = false
Unread(list) == {i \in DOMAIN list : ~list[i].read}

\* C27 as stated: after any sequence of add, markAsRead, markAllAsRead,
\* remove and clear, unreadCount is the number of stored notifications with
\* read = false, and no more than maxNotifications are stored.
C27_UnreadCountExact ==
    /\ center.unreadCount = Cardinality(Unread(center.notifications))
    /\ Len(center.notifications) <= maxNotifications

\* C29 as stated: when the provider signals SUBSCRIBED for the channel of a
\* ConsultationRoom whose leave() has been called and has not yet closed the
\* channel, the subscribe callback neither throws nor calls track: no
\* presence is announced once the teardown has begun.
C29_NoTrackOnceTeardownBegan ==
    [][\A c \in DOMAIN provider :
          /\ provider[c].state = "joining"
          /\ provider'[c].state = "joined"
          /\ TrackingOwner(provider[c].name) = "room"
          /\ objects.room = c
          /\ objects.leave # "idle"
          => /\ \A d \in DOMAIN provider :
                    provider'[d].tracks = provider[d].tracks
             /\ objects'.threw = objects.threw]_vars

\* every subscription the closures of this kind stand for is unsubscribed
AllUnsubscribed(kind) ==
    \A i \in DOMAIN subs :
        subs[i].kind = kind /\ subs[i].chan # 0 =>
            provider[subs[i].chan].state = "closed"

\* C30 as stated: whenever the last call on a NotificationListener or an
\* ActivityFeed was stop() (or none was made), every table subscription the
\* object opened has been unsubscribed, and no subscription is ever
\* unsubscribed a second time.
C30_StopUnsubscribesEverything ==
    /\ objects.listener = 0 => AllUnsubscribed("listener")
    /\ objects.feed = << >> => AllUnsubscribed("feed")
    /\ \A i \in DOMAIN subs :
           subs[i].kind \in {"listener", "feed"} => subs[i].unsubCalls <= 1

=============================================================================
